---- MODULE Spec2Model ----
(***************************************************************************)
(* Model of storage/postgresql/query.go: the filter compiler               *)
(* queryEventsSql and its two callers, QueryEvents (streaming fetch over   *)
(* an unbuffered channel fed by a background goroutine) and CountEvents.   *)
(*                                                                         *)
(* Strings that the code inspects character by character (ids, authors)    *)
(* are sequences of one-character strings.  A query text is a sequence of  *)
(* pieces: fixed literals of the source, embedded hex, embedded integers   *)
(* and placeholders.  Bound parameters are tagged values.                  *)
(***************************************************************************)
EXTENDS Integers, Sequences, FiniteSets, TLC

VARIABLES
    filter,        \* the *nostr.Filter passed to both entry points
    cfg,           \* the PostgresBackend limits (QueryIDsLimit, ...)
    store,         \* rows of table event
    sqlCount,      \* result of queryEventsSql(filter, true), once called
    sqlRows,       \* result of queryEventsSql(filter, false), once called
    dbLog,         \* invocations of the storage handle b.DB, in order
    ctxDone,       \* the caller cancelled the context it passed
    qpc,           \* QueryEvents: "idle" or "returned"
    qerr,          \* QueryEvents: the returned error
    chOut,         \* QueryEvents: a channel was returned (FALSE: nil)
    chCloses,      \* number of close(ch) executed
    rows,          \* the *sql.Rows the goroutine iterates
    ppc,           \* position of the background goroutine
    scanned,       \* number of rows.Scan calls made
    failedAt,      \* index of the row whose Scan failed, 0 if none
    fault,         \* the run-time panic raised in the goroutine, if any
    delivered,     \* events the consumer received from ch, in order
    cpc,           \* position of the consumer of ch
    kpc,           \* CountEvents: "idle" or "returned"
    kcount,        \* CountEvents: the returned count
    kerr,          \* CountEvents: the returned error
    qout,          \* how b.DB.Query answered QueryEvents
    kout           \* how b.DB.QueryRow(...).Scan answered CountEvents

vars == <<filter, cfg, store, sqlCount, sqlRows, dbLog, ctxDone, qpc, qerr,
          chOut, chCloses, rows, ppc, scanned, failedAt, fault,
          delivered, cpc, kpc, kcount, kerr, qout, kout>>

execVars == <<dbLog, ctxDone, qpc, qerr, chOut, chCloses, rows, ppc, scanned,
              failedAt, fault, delivered, cpc, kpc, kcount, kerr, qout, kout>>

(***************************************************************************)
(* Bounds of the explored inputs.                                          *)
(***************************************************************************)
\* QueryLimit ranges over 1..MaxLimit, filter.Limit over -1..MaxLimit + 1
MaxLimit == 2
\* table event holds at most this many rows
MaxStored == 3
\* filter.Kinds has at most this many entries
MaxKinds == 2

\* len(parsed) != 32
IdBytes == 32

Min(a, b) == IF a < b THEN a ELSE b

\* concatenation of a sequence of sequences
Flatten(ss) == LET RECURSIVE go(_)
                   go(i) == IF i > Len(ss) THEN <<>> ELSE ss[i] \o go(i + 1)
               IN go(1)

(***************************************************************************)
(* encoding/hex                                                            *)
(***************************************************************************)
LowerHex == <<"0", "1", "2", "3", "4", "5", "6", "7",
              "8", "9", "a", "b", "c", "d", "e", "f">>
UpperHex == <<"0", "1", "2", "3", "4", "5", "6", "7",
              "8", "9", "A", "B", "C", "D", "E", "F">>

HexTable ==
    [c \in {LowerHex[i] : i \in 1..16} \cup {UpperHex[i] : i \in 1..16} |->
        IF \E i \in 1..16 : LowerHex[i] = c
        THEN (CHOOSE i \in 1..16 : LowerHex[i] = c) - 1
        ELSE (CHOOSE i \in 1..16 : UpperHex[i] = c) - 1]

\* fromHexChar: the value of a hex digit of either case, -1 if not one
fromHexChar(c) == IF c \in DOMAIN HexTable THEN HexTable[c] ELSE -1

\* hex.DecodeString: the bytes decoded before the first invalid pair, and
\* an error for an invalid character or an odd length
DecodeString(s) ==
    LET n == Len(s) \div 2
        badPair(i) == fromHexChar(s[2 * i - 1]) < 0 \/ fromHexChar(s[2 * i]) < 0
        bad == {i \in 1..n : badPair(i)}
        stop == IF bad = {} THEN n
                ELSE (CHOOSE i \in bad : \A j \in bad : i <= j) - 1
    IN [err |-> bad # {} \/ Len(s) % 2 = 1,
        bytes |-> [i \in 1..stop |->
                      16 * fromHexChar(s[2 * i - 1]) + fromHexChar(s[2 * i])]]

\* the %x verb applied to a byte slice: two lowercase digits per byte
EncodeToString(bytes) ==
    [i \in 1..(2 * Len(bytes)) |->
        IF i % 2 = 1 THEN LowerHex[(bytes[(i + 1) \div 2] \div 16) + 1]
        ELSE LowerHex[(bytes[i \div 2] % 16) + 1]]

(***************************************************************************)
(* Pieces of query text and bound parameters                               *)
(***************************************************************************)
Lit(s) == [t |-> "lit", s |-> s, h |-> <<>>, n |-> 0]
HexPiece(h) == [t |-> "hex", s |-> "", h |-> h, n |-> 0]
IntPiece(n) == [t |-> "int", s |-> "", h |-> <<>>, n |-> n]
Ph == [t |-> "?", s |-> "", h |-> <<>>, n |-> 0]
Dollar(n) == [t |-> "$", s |-> "", h |-> <<>>, n |-> n]

StrParam(s) == [t |-> "str", s |-> s, n |-> 0]
IntParam(n) == [t |-> "int", s |-> "", n |-> n]

\* strings.Join over pieces
Join(parts, sep) ==
    LET RECURSIVE go(_)
        go(i) == IF i > Len(parts) THEN <<>>
                 ELSE IF i = 1 THEN parts[i] \o go(i + 1)
                 ELSE <<Lit(sep)>> \o parts[i] \o go(i + 1)
    IN go(1)

\* sqlx.Rebind(DOLLAR, q): the k-th ? becomes $k
Rebind(q) ==
    [i \in 1..Len(q) |->
        IF q[i].t = "?"
        THEN Dollar(Cardinality({j \in 1..i : q[j].t = "?"}))
        ELSE q[i]]

(***************************************************************************)
(* queryEventsSql                                                          *)
(***************************************************************************)
Absent == [present |-> FALSE, v |-> <<>>]
Present(v) == [present |-> TRUE, v |-> v]
NoTime == [present |-> FALSE, v |-> 0]
Time(v) == [present |-> TRUE, v |-> v]

\* the three outcomes of queryEventsSql
ErrNull == [err |-> TRUE, query |-> <<>>, params |-> <<>>]
Empty == [err |-> FALSE, query |-> <<>>, params |-> <<>>]
Compiled(q, p) == [err |-> FALSE, query |-> q, params |-> p]

\* LikeList without the length test of lines 81 and 104
LikeListAnyLength(like, entries) ==
    LET RECURSIVE go(_)
        go(i) ==
            IF i > Len(entries) THEN <<>>
            ELSE LET d == DecodeString(entries[i])
                 IN IF d.err
                    THEN go(i + 1)
                    ELSE <<<<Lit(like),
                             HexPiece(EncodeToString(d.bytes)),
                             Lit("%'")>>>> \o go(i + 1)
    IN go(1)

\* lines 76-85 and 99-108: one LIKE fragment per entry that decodes to
\* 32 bytes, the others skipped
LikeList(like, entries) ==
    LET RECURSIVE go(_)
        go(i) ==
            IF i > Len(entries) THEN <<>>
            ELSE LET d == DecodeString(entries[i])
                 IN IF d.err \/ Len(d.bytes) # IdBytes
                    THEN go(i + 1)
                    ELSE <<<<Lit(like),
                             HexPiece(EncodeToString(d.bytes)),
                             Lit("%'")>>>> \o go(i + 1)
    IN go(1)

\* lines 127-130: strconv.Itoa of every kind
InKinds(kinds) == [i \in 1..Len(kinds) |-> <<IntPiece(kinds[i])>>]

\* lines 134-148: the values of every tag appended in map iteration order;
\* stop is the early return
TagLoop(tags, order, limit) ==
    LET RECURSIVE go(_, _)
        go(i, tagQuery) ==
            IF i > Len(order) THEN [stop |-> FALSE, tagQuery |-> tagQuery]
            ELSE IF Len(tags[order[i]]) = 0
            THEN [stop |-> TRUE, tagQuery |-> tagQuery]
            ELSE IF Len(tagQuery \o tags[order[i]]) > limit
            THEN [stop |-> TRUE, tagQuery |-> tagQuery \o tags[order[i]]]
            ELSE go(i + 1, tagQuery \o tags[order[i]])
    IN go(1, <<>>)

\* ResolveLimit letting a requested limit of 0 through
ResolveLimitZero(f, b) ==
    IF f.Limit < 0 \/ f.Limit > b.QueryLimit THEN b.QueryLimit ELSE f.Limit

\* lines 177-181
ResolveLimit(f, b) ==
    IF f.Limit < 1 \/ f.Limit > b.QueryLimit THEN b.QueryLimit ELSE f.Limit

SelectCount == "COUNT(*)"
SelectRows == "id, pubkey, created_at, kind, tags, content, sig"

\* lines 183-196
BuildQuery(conditions, doCount) ==
    Rebind(<<Lit("SELECT"),
             Lit(IF doCount THEN SelectCount ELSE SelectRows),
             Lit("FROM event WHERE ")>>
           \o Join(conditions, " AND ")
           \o <<Lit(" ORDER BY created_at DESC LIMIT "), Ph>>)

\* order is the order in which this call's range over filter.Tags visits
\* the tag names
queryEventsSql(b, f, doCount, order) ==
    IF f.null THEN ErrNull
    ELSE
    LET likeids == LikeList("id LIKE '", f.IDs.v)
        likekeys == LikeList("pubkey LIKE '", f.Authors.v)
        tl == TagLoop(f.Tags, order, b.QueryTagsLimit)
        tagQuery == tl.tagQuery
        cIds == IF f.IDs.present
                THEN <<<<Lit("(")>> \o Join(likeids, " OR ") \o <<Lit(")")>>>>
                ELSE <<>>
        cAuthors == IF f.Authors.present
                    THEN <<<<Lit("(")>> \o Join(likekeys, " OR ") \o <<Lit(")")>>>>
                    ELSE <<>>
        cKinds == IF f.Kinds.present
                  THEN <<<<Lit("kind IN (")>> \o Join(InKinds(f.Kinds.v), ",")
                         \o <<Lit(")")>>>>
                  ELSE <<>>
        cTags == IF Len(tagQuery) > 0
                 THEN <<<<Lit("tagvalues && ARRAY[")>>
                        \o Join([i \in 1..Len(tagQuery) |-> <<Ph>>], ",")
                        \o <<Lit("]")>>>>
                 ELSE <<>>
        pTags == [i \in 1..Len(tagQuery) |-> StrParam(tagQuery[i])]
        cSince == IF f.Since.present
                  THEN <<<<Lit("created_at >= "), Ph>>>> ELSE <<>>
        pSince == IF f.Since.present THEN <<IntParam(f.Since.v)>> ELSE <<>>
        cUntil == IF f.Until.present
                  THEN <<<<Lit("created_at <= "), Ph>>>> ELSE <<>>
        pUntil == IF f.Until.present THEN <<IntParam(f.Until.v)>> ELSE <<>>
        emitted == cIds \o cAuthors \o cKinds \o cTags \o cSince \o cUntil
        conditions == IF Len(emitted) = 0 THEN <<<<Lit("true")>>>> ELSE emitted
        params == pTags \o pSince \o pUntil \o <<IntParam(ResolveLimit(f, b))>>
    IN  IF f.IDs.present /\ Len(f.IDs.v) > b.QueryIDsLimit THEN Empty
        ELSE IF f.IDs.present /\ Len(likeids) = 0 THEN Empty
        ELSE IF f.Authors.present /\ Len(f.Authors.v) > b.QueryAuthorsLimit
        THEN Empty
        ELSE IF f.Authors.present /\ Len(likekeys) = 0 THEN Empty
        ELSE IF f.Kinds.present /\ Len(f.Kinds.v) > b.QueryKindsLimit THEN Empty
        ELSE IF f.Kinds.present /\ Len(f.Kinds.v) = 0 THEN Empty
        ELSE IF tl.stop THEN Empty
        ELSE Compiled(BuildQuery(conditions, doCount), params)

(***************************************************************************)
(* Inputs                                                                  *)
(***************************************************************************)
Rep(c, n) == [i \in 1..n |-> c]

\* valid, lowercase
IdA == Rep("a", 2 * IdBytes)
\* valid, uppercase
IdUpperB == Rep("B", 2 * IdBytes)
\* decodes to 31 bytes
IdShort == Rep("c", 2 * IdBytes - 2)
\* decodes to 32 bytes, then fails with ErrLength
IdOdd == Rep("d", 2 * IdBytes + 1)
\* fails with InvalidByteError in the second byte
IdQuote == [i \in 1..(2 * IdBytes) |-> IF i = 3 THEN "'" ELSE "a"]
\* decodes to 32 bytes, then fails with InvalidByteError
IdLate == [i \in 1..(2 * IdBytes + 2) |->
              IF i > 2 * IdBytes THEN "'" ELSE "e"]

IdsOptions == {Absent, Present(<<>>), Present(<<IdA>>), Present(<<IdQuote>>),
               Present(<<IdUpperB, IdA>>), Present(<<IdOdd, IdA>>),
               Present(<<IdShort, IdLate>>), Present(<<IdA, IdA, IdUpperB>>)}
AuthorsOptions == {Absent, Present(<<>>), Present(<<IdUpperB>>),
                   Present(<<IdQuote, IdA>>), Present(<<IdLate>>),
                   Present(<<IdA, IdUpperB, IdA>>)}
KindsOptions == {Absent} \cup {Present([i \in 1..n |-> i]) : n \in 0..MaxKinds}

NoTags == [k \in {} |-> <<>>]
TagsOptions == {NoTags,
                [k \in {"e"} |-> <<>>],
                [k \in {"e"} |-> <<"x">>],
                [k \in {"e", "p"} |-> IF k = "e" THEN <<"x">> ELSE <<"y">>],
                [k \in {"e", "p"} |-> IF k = "e" THEN <<"x", "y">> ELSE <<>>],
                [k \in {"e", "p"} |-> IF k = "e" THEN <<"y", "x">> ELSE <<"z">>]}
TimeOptions == {NoTime, Time(2)}
LimitOptions == (-1)..(MaxLimit + 1)

NullFilter == [null |-> TRUE, IDs |-> Absent, Authors |-> Absent,
               Kinds |-> Absent, Tags |-> NoTags, Since |-> NoTime,
               Until |-> NoTime, Limit |-> 0]

Filters(ids, authors, kinds, tags, times, limits) ==
    [null : {FALSE}, IDs : ids, Authors : authors, Kinds : kinds, Tags : tags,
     Since : times, Until : times, Limit : limits]

Backends(idl, authorl, kindl, tagl, rowl) ==
    [QueryIDsLimit : idl, QueryAuthorsLimit : authorl, QueryKindsLimit : kindl,
     QueryTagsLimit : tagl, QueryLimit : rowl]

\* the orders in which a range over a map with these keys can visit them
Orders(keys) ==
    {o \in [1..Cardinality(keys) -> keys] :
        \A i, j \in 1..Cardinality(keys) : o[i] = o[j] => i = j}

NotCalled == [called |-> FALSE, err |-> FALSE, query |-> <<>>, params |-> <<>>,
              order |-> <<>>]
Called(r, order) == [called |-> TRUE, err |-> r.err, query |-> r.query,
                     params |-> r.params, order |-> order]

NilRows == [nil |-> TRUE, data |-> <<>>, pos |-> 0, closed |-> FALSE]
OpenRows(data) == [nil |-> FALSE, data |-> data, pos |-> 0, closed |-> FALSE]

ExecIdle ==
    /\ dbLog = <<>>
    /\ ctxDone = FALSE
    /\ qpc = "idle"
    /\ qerr = "nil"
    /\ chOut = FALSE
    /\ chCloses = 0
    /\ rows = NilRows
    /\ ppc = "none"
    /\ scanned = 0
    /\ failedAt = 0
    /\ fault = "none"
    /\ delivered = <<>>
    /\ cpc = "none"
    /\ kpc = "idle"
    /\ kcount = 0
    /\ kerr = "nil"
    /\ qout = "none"
    /\ kout = "none"

(***************************************************************************)
(* SpecSql: queryEventsSql as a pure function, called once per shape       *)
(***************************************************************************)
\* filters that vary the embedded material, and filters that vary the
\* bound material
TextFilters == Filters(IdsOptions, AuthorsOptions, {Absent, Present(<<1>>)},
                       {NoTags, [k \in {"e"} |-> <<"x">>]}, {NoTime}, {0})
ParamFilters == Filters({Absent}, {Absent}, KindsOptions, TagsOptions,
                        TimeOptions, LimitOptions)

InitSql ==
    /\ \/ /\ filter \in TextFilters
          /\ cfg \in Backends({1, 2}, {1, 2}, {2}, {2}, {1})
       \/ /\ filter \in ParamFilters \cup {NullFilter}
          /\ cfg \in Backends({2}, {2}, {1, 2}, {1, 3}, 1..MaxLimit)
    /\ store = {}
    /\ sqlCount = NotCalled
    /\ sqlRows = NotCalled
    /\ ExecIdle

CompileCount ==
    /\ ~sqlCount.called
    /\ \E order \in Orders(DOMAIN filter.Tags) :
           sqlCount' = Called(queryEventsSql(cfg, filter, TRUE, order), order)
    /\ UNCHANGED <<filter, cfg, store, sqlRows>>
    /\ UNCHANGED execVars

CompileRows ==
    /\ ~sqlRows.called
    /\ \E order \in Orders(DOMAIN filter.Tags) :
           sqlRows' = Called(queryEventsSql(cfg, filter, FALSE, order), order)
    /\ UNCHANGED <<filter, cfg, store, sqlCount>>
    /\ UNCHANGED execVars

NextSql == CompileCount \/ CompileRows

SpecSql == InitSql /\ [][NextSql]_vars

(***************************************************************************)
(* The storage engine behind b.DB: table event and the evaluation of a     *)
(* statement text with its bound parameters                                *)
(***************************************************************************)
Ev(i) == [id |-> Rep(LowerHex[10 + i], 2 * IdBytes),
          pubkey |-> Rep(IF i % 2 = 1 THEN "a" ELSE "b", 2 * IdBytes),
          created_at |-> i,
          kind |-> 1 + (i % 2),
          tagvalues |-> IF i % 2 = 1 THEN {"x"} ELSE {"y", "z"}]

Positions(q, piece) == {i \in 1..Len(q) : q[i] = piece}

\* value LIKE 'h%'
HasPrefix(value, h) ==
    Len(h) <= Len(value) /\ \A i \in 1..Len(h) : value[i] = h[i]

\* the WHERE clause of the statement q on row e, $k bound to params[k]
Matches(e, q, params) ==
    LET idLits == {q[i + 1].h : i \in Positions(q, Lit("id LIKE '"))}
        keyLits == {q[i + 1].h : i \in Positions(q, Lit("pubkey LIKE '"))}
        kinds == {q[i].n : i \in {j \in 1..Len(q) : q[j].t = "int"}}
        array == {params[q[i].n].s :
                     i \in {j \in 2..Len(q) :
                               /\ q[j].t = "$"
                               /\ q[j - 1] \in {Lit("tagvalues && ARRAY["),
                                                Lit(",")}}}
    IN /\ idLits # {} => \E h \in idLits : HasPrefix(e.id, h)
       /\ keyLits # {} => \E h \in keyLits : HasPrefix(e.pubkey, h)
       /\ Positions(q, Lit("kind IN (")) # {} => e.kind \in kinds
       /\ Positions(q, Lit("tagvalues && ARRAY[")) # {} =>
              e.tagvalues \cap array # {}
       /\ \A i \in Positions(q, Lit("created_at >= ")) :
              e.created_at >= params[q[i + 1].n].n
       /\ \A i \in Positions(q, Lit("created_at <= ")) :
              e.created_at <= params[q[i + 1].n].n

\* the value bound to LIMIT
LimitOf(q, params) ==
    LET i == CHOOSE j \in Positions(q, Lit(" ORDER BY created_at DESC LIMIT ")) :
                 TRUE
    IN params[q[i + 1].n].n

\* ORDER BY created_at DESC
SortDesc(events) ==
    LET RECURSIVE go(_)
        go(es) == IF es = {} THEN <<>>
                  ELSE LET m == CHOOSE e \in es :
                                    \A o \in es : o.created_at <= e.created_at
                       IN <<m>> \o go(es \ {m})
    IN go(events)

\* the result set of a statement: none for the empty statement; one row
\* holding the number of matching rows for the aggregate, cut by LIMIT like
\* any result set; the matching rows, newest first, cut by LIMIT otherwise
ResultSet(q, params, table) ==
    IF q = <<>> THEN <<>>
    ELSE LET matching == {e \in table : Matches(e, q, params)}
             limit == LimitOf(q, params)
         IN IF q[2] = Lit(SelectCount)
            THEN SubSeq(<<Cardinality(matching)>>, 1, Min(1, limit))
            ELSE SubSeq(SortDesc(matching), 1,
                        Min(Cardinality(matching), limit))

\* a failure of the storage call, sql.ErrNoRows, or an answer
Outcomes == {"ok", "error", "norows"}

(***************************************************************************)
(* QueryEvents                                                             *)
(***************************************************************************)
\* lines 16-28, the go statement of line 30 and the return of line 46
QueryEvents ==
    /\ qpc = "idle"
    /\ \E order \in Orders(DOMAIN filter.Tags), out \in Outcomes :
       \E r \in {queryEventsSql(cfg, filter, FALSE, order)} :
        /\ sqlRows' = Called(r, order)
        /\ qpc' = "returned"
        /\ IF r.err
           THEN /\ chCloses' = chCloses + 1
                /\ qerr' = "null"
                /\ UNCHANGED <<dbLog, qout, rows, ppc, cpc, chOut>>
           ELSE /\ dbLog' = Append(dbLog, [op |-> "Query", query |-> r.query,
                                           params |-> r.params])
                /\ qout' = out
                /\ IF out = "error"
                   THEN /\ chCloses' = chCloses + 1
                        /\ qerr' = "storage"
                        /\ UNCHANGED <<rows, ppc, cpc, chOut>>
                   ELSE /\ rows' = IF out = "ok"
                                   THEN OpenRows(ResultSet(r.query, r.params,
                                                           store))
                                   ELSE NilRows
                        /\ ppc' = "next"
                        /\ cpc' = "recv"
                        /\ chOut' = TRUE
                        /\ UNCHANGED <<chCloses, qerr>>
    /\ UNCHANGED <<filter, cfg, store, sqlCount, ctxDone, scanned, failedAt,
                   fault, delivered, kpc, kcount, kerr, kout>>

\* line 33: rows.Next(); on the nil *sql.Rows of a failed Query it
\* dereferences nil, and the deferred calls run while the goroutine panics
ProducerNext ==
    /\ ppc = "next"
    /\ IF rows.nil
       THEN /\ fault' = "nil rows"
            /\ ppc' = "closech"
            /\ UNCHANGED rows
       ELSE IF rows.pos < Len(rows.data)
       THEN /\ rows' = [rows EXCEPT !.pos = @ + 1]
            /\ ppc' = "scan"
            /\ UNCHANGED fault
       ELSE /\ ppc' = "closech"
            /\ UNCHANGED <<rows, fault>>
    /\ UNCHANGED <<filter, cfg, store, sqlCount, sqlRows, dbLog, ctxDone, qpc,
                   qerr, chOut, chCloses, scanned, failedAt, delivered, cpc,
                   kpc, kcount, kerr, qout, kout>>

\* ProducerScan without the return of line 39
ProducerScanNoReturn ==
    /\ ppc = "scan"
    /\ scanned' = scanned + 1
    /\ \E ok \in BOOLEAN :
          /\ failedAt' = IF ok THEN failedAt ELSE rows.pos
          /\ ppc' = "send"
    /\ UNCHANGED <<filter, cfg, store, sqlCount, sqlRows, dbLog, ctxDone, qpc,
                   qerr, chOut, chCloses, rows, fault, delivered, cpc, kpc,
                   kcount, kerr, qout, kout>>

\* lines 36-41: rows.Scan of the current row, which may fail
ProducerScan ==
    /\ ppc = "scan"
    /\ scanned' = scanned + 1
    /\ \E ok \in BOOLEAN :
          IF ok THEN /\ ppc' = "send"
                     /\ UNCHANGED failedAt
          ELSE /\ failedAt' = rows.pos
               /\ ppc' = "closech"
    /\ UNCHANGED <<filter, cfg, store, sqlCount, sqlRows, dbLog, ctxDone, qpc,
                   qerr, chOut, chCloses, rows, fault, delivered, cpc, kpc,
                   kcount, kerr, qout, kout>>

\* Handoff as a send that gives up when no receiver is waiting
HandoffNonBlocking ==
    /\ ppc = "send"
    /\ cpc \in {"recv", "stopped"}
    /\ delivered' = IF cpc = "recv" THEN Append(delivered, rows.data[rows.pos])
                    ELSE delivered
    /\ ppc' = "next"
    /\ UNCHANGED <<filter, cfg, store, sqlCount, sqlRows, dbLog, ctxDone, qpc,
                   qerr, chOut, chCloses, rows, scanned, failedAt, fault, cpc,
                   kpc, kcount, kerr, qout, kout>>

\* line 42 meeting a receive of the consumer: ch is unbuffered, so the send
\* completes only together with a receive; a send on a closed channel panics
Handoff ==
    /\ ppc = "send"
    /\ cpc = "recv"
    /\ IF chCloses > 0
       THEN /\ fault' = "send on closed channel"
            /\ ppc' = "closech"
            /\ UNCHANGED delivered
       ELSE /\ delivered' = Append(delivered, rows.data[rows.pos])
            /\ ppc' = "next"
            /\ UNCHANGED fault
    /\ UNCHANGED <<filter, cfg, store, sqlCount, sqlRows, dbLog, ctxDone, qpc,
                   qerr, chOut, chCloses, rows, scanned, failedAt, cpc, kpc,
                   kcount, kerr, qout, kout>>

\* line 32, run when the goroutine's function returns or panics
ProducerCloseCh ==
    /\ ppc = "closech"
    /\ chCloses' = chCloses + 1
    /\ ppc' = "closerows"
    /\ UNCHANGED <<filter, cfg, store, sqlCount, sqlRows, dbLog, ctxDone, qpc,
                   qerr, chOut, rows, scanned, failedAt, fault, delivered, cpc,
                   kpc, kcount, kerr, qout, kout>>

\* line 31, run after line 32; the panic of the goroutine, if any, then
\* ends the process
ProducerCloseRows ==
    /\ ppc = "closerows"
    /\ rows' = IF rows.nil THEN rows ELSE [rows EXCEPT !.closed = TRUE]
    /\ ppc' = IF fault = "none" THEN "done" ELSE "crashed"
    /\ UNCHANGED <<filter, cfg, store, sqlCount, sqlRows, dbLog, ctxDone, qpc,
                   qerr, chOut, chCloses, scanned, failedAt, fault, delivered,
                   cpc, kpc, kcount, kerr, qout, kout>>

\* the consumer's receive on the closed channel
ConsumerSeesClose ==
    /\ cpc = "recv"
    /\ chCloses > 0
    /\ ppc # "crashed"
    /\ cpc' = "eof"
    /\ UNCHANGED <<filter, cfg, store, sqlCount, sqlRows, dbLog, ctxDone, qpc,
                   qerr, chOut, chCloses, rows, ppc, scanned, failedAt, fault,
                   delivered, kpc, kcount, kerr, qout, kout>>

\* the consumer stops receiving before the channel is closed
ConsumerStops ==
    /\ cpc = "recv"
    /\ ppc # "crashed"
    /\ cpc' = "stopped"
    /\ UNCHANGED <<filter, cfg, store, sqlCount, sqlRows, dbLog, ctxDone, qpc,
                   qerr, chOut, chCloses, rows, ppc, scanned, failedAt, fault,
                   delivered, kpc, kcount, kerr, qout, kout>>

\* CancelCtx with the context wired into the send of line 42
CancelCtxWired ==
    /\ ~ctxDone
    /\ ctxDone' = TRUE
    /\ ppc' = IF ppc = "send" THEN "closech" ELSE ppc
    /\ UNCHANGED <<filter, cfg, store, sqlCount, sqlRows, dbLog, qpc, qerr,
                   chOut, chCloses, rows, scanned, failedAt, fault, delivered,
                   cpc, kpc, kcount, kerr, qout, kout>>

\* the caller cancels ctx, which lines 15-47 never read
CancelCtx ==
    /\ ~ctxDone
    /\ ctxDone' = TRUE
    /\ UNCHANGED <<filter, cfg, store, sqlCount, sqlRows, dbLog, qpc, qerr,
                   chOut, chCloses, rows, ppc, scanned, failedAt, fault,
                   delivered, cpc, kpc, kcount, kerr, qout, kout>>

(***************************************************************************)
(* CountEvents                                                             *)
(***************************************************************************)
\* lines 50-59, called by the caller of QueryEvents once it is no longer
\* receiving from the channel (the two calls share no state)
CountEvents ==
    /\ kpc = "idle"
    /\ qpc = "returned"
    /\ cpc # "recv"
    /\ ppc # "crashed"
    /\ \E order \in Orders(DOMAIN filter.Tags), out \in Outcomes :
       \E r \in {queryEventsSql(cfg, filter, TRUE, order)} :
       \E res \in {ResultSet(r.query, r.params, store)} :
        /\ sqlCount' = Called(r, order)
        /\ kpc' = "returned"
        /\ IF r.err
           THEN /\ kcount' = 0
                /\ kerr' = "null"
                /\ UNCHANGED <<dbLog, kout>>
           ELSE /\ dbLog' = Append(dbLog, [op |-> "QueryRow", query |-> r.query,
                                           params |-> r.params])
                /\ kout' = IF out = "ok" /\ res = <<>> THEN "norows" ELSE out
                /\ kcount' = IF out = "ok" /\ res # <<>> THEN res[1] ELSE 0
                /\ kerr' = IF out = "error" THEN "storage" ELSE "nil"
    /\ UNCHANGED <<filter, cfg, store, sqlRows, ctxDone, qpc, qerr, chOut,
                   chCloses, rows, ppc, scanned, failedAt, fault, delivered,
                   cpc, qout>>

(***************************************************************************)
(* Spec: one CountEvents and one QueryEvents with its stream, on the same  *)
(* filter and table                                                        *)
(***************************************************************************)
EmptyResultFilters ==
    Filters({Present(<<>>), Present(<<IdQuote>>), Present(<<IdA, IdA, IdUpperB>>)},
            {Absent}, {Absent}, {NoTags}, {NoTime}, {0})
    \cup Filters({Absent}, {Present(<<>>), Present(<<IdLate>>),
                            Present(<<IdA, IdUpperB, IdA>>)},
                 {Absent}, {NoTags}, {NoTime}, {0})
    \cup Filters({Absent}, {Absent},
                 {Present(<<>>), Present([i \in 1..(MaxKinds + 1) |-> i])},
                 {NoTags}, {NoTime}, {0})
    \cup Filters({Absent}, {Absent}, {Absent},
                 {[k \in {"e"} |-> <<>>],
                  [k \in {"e", "p"} |-> IF k = "e" THEN <<"x", "y">> ELSE <<>>],
                  [k \in {"e", "p"} |-> IF k = "e" THEN <<"y", "x">> ELSE <<"z">>]},
                 {NoTime}, {0})

MatchingFilters ==
    Filters({Absent, Present(<<IdUpperB, IdA>>)}, {Absent},
            {Absent, Present(<<1>>)}, {NoTags}, {NoTime}, LimitOptions)
    \cup Filters({Absent}, {Absent, Present(<<IdA>>)}, {Absent},
                 {[k \in {"e"} |-> <<"x">>],
                  [k \in {"e", "p"} |-> IF k = "e" THEN <<"x">> ELSE <<"y">>]},
                 TimeOptions, {0})

Init ==
    /\ filter \in EmptyResultFilters \cup MatchingFilters \cup {NullFilter}
    /\ cfg \in Backends({2}, {2}, {MaxKinds}, {2}, 1..MaxLimit)
    /\ \E n \in 0..MaxStored : store = {Ev(i) : i \in 1..n}
    /\ sqlCount = NotCalled
    /\ sqlRows = NotCalled
    /\ ExecIdle

Next ==
    \/ QueryEvents
    \/ ProducerNext
    \/ ProducerScan
    \/ Handoff
    \/ ProducerCloseCh
    \/ ProducerCloseRows
    \/ ConsumerSeesClose
    \/ ConsumerStops
    \/ CancelCtx
    \/ CountEvents

Spec == Init /\ [][Next]_vars

(***************************************************************************)
(* Properties of queryEventsSql (SpecSql)                                  *)
(***************************************************************************)
IsQuery(r) == r.called /\ ~r.err /\ r.query # <<>>
IsEmpty(r) == r.called /\ ~r.err /\ r.query = <<>>
IsError(r) == r.called /\ r.err

\* the tag values of the filter in the order a call visited the tag names
EmittedTags(r) == Flatten([i \in 1..Len(r.order) |-> filter.Tags[r.order[i]]])

ExpectedLimit ==
    IF 1 <= filter.Limit /\ filter.Limit <= cfg.QueryLimit
    THEN filter.Limit ELSE cfg.QueryLimit

ExpectedParams(r) ==
    [i \in 1..Len(EmittedTags(r)) |-> StrParam(EmittedTags(r)[i])]
    \o (IF filter.Since.present THEN <<IntParam(filter.Since.v)>> ELSE <<>>)
    \o (IF filter.Until.present THEN <<IntParam(filter.Until.v)>> ELSE <<>>)
    \o <<IntParam(ExpectedLimit)>>

\* C3: for both shapes, the bound parameters of a compiled query are the
\* flattened tag values in emission order, then since if present, then
\* until if present, then the resolved limit last, the resolved limit being
\* filter.Limit when 1 <= filter.Limit <= QueryLimit and QueryLimit otherwise.
C3_ParamOrder ==
    \A r \in {sqlCount, sqlRows} : IsQuery(r) => r.params = ExpectedParams(r)

C3_Witness ==
    /\ IsQuery(sqlCount) /\ IsQuery(sqlRows)
    /\ Cardinality(DOMAIN filter.Tags) = 2
    /\ filter.Since.present /\ filter.Until.present
    /\ filter.Limit = 0
    /\ Len(sqlRows.params) = 5

HexChars == {LowerHex[i] : i \in 1..16} \cup {UpperHex[i] : i \in 1..16}
LowerChars == {LowerHex[i] : i \in 1..16}
ToLower(c) == IF \E i \in 1..16 : UpperHex[i] = c
              THEN LowerHex[CHOOSE i \in 1..16 : UpperHex[i] = c] ELSE c

\* an entry that is 64 hex digits, that is, decodes to exactly 32 bytes
ValidEntry(e) == Len(e) = 2 * IdBytes /\ \A i \in 1..Len(e) : e[i] \in HexChars

SelectSeq2(s, Test(_)) ==
    LET RECURSIVE go(_)
        go(i) == IF i > Len(s) THEN <<>>
                 ELSE IF Test(s[i]) THEN <<s[i]>> \o go(i + 1) ELSE go(i + 1)
    IN go(1)

\* the lowercase re-encodings of the valid entries, ids first
ExpectedHex ==
    LET valid == SelectSeq2(filter.IDs.v \o filter.Authors.v, ValidEntry)
    IN [i \in 1..Len(valid) |-> [j \in 1..Len(valid[i]) |-> ToLower(valid[i][j])]]

IsHexPiece(p) == p.t = "hex"
EmbeddedHex(q) ==
    LET hs == SelectSeq2(q, IsHexPiece) IN [i \in 1..Len(hs) |-> hs[i].h]

SourceLiterals ==
    {"SELECT", SelectCount, SelectRows, "FROM event WHERE ", " AND ", " OR ",
     "(", ")", "id LIKE '", "pubkey LIKE '", "%'", "kind IN (", ",",
     "tagvalues && ARRAY[", "]", "created_at >= ", "created_at <= ", "true",
     " ORDER BY created_at DESC LIMIT "}

\* C9: the only caller-supplied string material in a query text is, per
\* ids/authors entry that decodes to exactly 32 bytes, its 64-character
\* lowercase hex re-encoding, in input order, each inside one LIKE
\* condition; other entries contribute nothing and tag values appear only
\* as bound parameters.
C9_OnlyValidatedHex ==
    \A r \in {sqlCount, sqlRows} : IsQuery(r) =>
        /\ EmbeddedHex(r.query) = ExpectedHex
        /\ \A i \in 1..Len(r.query) :
              LET p == r.query[i] IN
              /\ p.t \in {"lit", "hex", "int", "$"}
              /\ p.t = "lit" => p.s \in SourceLiterals
              /\ p.t = "int" => filter.Kinds.present
                                /\ \E k \in 1..Len(filter.Kinds.v) :
                                       filter.Kinds.v[k] = p.n
              /\ p.t = "hex" =>
                    /\ Len(p.h) = 2 * IdBytes
                    /\ \A j \in 1..Len(p.h) : p.h[j] \in LowerChars
                    /\ i > 1 /\ i < Len(r.query)
                    /\ r.query[i - 1] \in {Lit("id LIKE '"), Lit("pubkey LIKE '")}
                    /\ r.query[i + 1] = Lit("%'")
        /\ \A i \in 1..Len(r.params) :
              r.params[i].t = "str" =>
                  \E k \in DOMAIN filter.Tags : \E j \in 1..Len(filter.Tags[k]) :
                      filter.Tags[k][j] = r.params[i].s

C9_Witness ==
    /\ IsQuery(sqlRows)
    /\ filter.IDs = Present(<<IdOdd, IdA>>)
    /\ filter.Authors = Present(<<IdUpperB>>)
    /\ filter.Tags # NoTags
    /\ Len(EmbeddedHex(sqlRows.query)) = 2

Kind(r) == IF r.err THEN "error" ELSE IF r.query = <<>> THEN "empty" ELSE "query"

FromClause(q) == SubSeq(q, 3, Len(q))

\* C10: both shapes give the same outcome kind and, when both give a
\* query, identical parameter lists and texts identical from
\* FROM event WHERE on, differing only in the select list, also for
\* filters with several tag names.
C10_Identical ==
    (sqlCount.called /\ sqlRows.called) =>
        /\ Kind(sqlCount) = Kind(sqlRows)
        /\ Kind(sqlCount) = "query" =>
              /\ sqlCount.params = sqlRows.params
              /\ FromClause(sqlCount.query) = FromClause(sqlRows.query)
              /\ sqlCount.query[2] = Lit(SelectCount)
              /\ sqlRows.query[2] = Lit(SelectRows)
              /\ sqlCount.query[1] = sqlRows.query[1]

Occurrences(s, x) == Cardinality({i \in 1..Len(s) : s[i] = x})
NumTags(r) == Len(EmittedTags(r))

\* What the two shapes do share: the outcome kind, the text from
\* FROM event WHERE on, and parameter lists that differ at most in the
\* order of the leading tag values, and not at all when both calls visited
\* the tag names in the same order.
SameUpToTagOrder ==
    (sqlCount.called /\ sqlRows.called) =>
        /\ Kind(sqlCount) = Kind(sqlRows)
        /\ Kind(sqlCount) = "query" =>
              /\ FromClause(sqlCount.query) = FromClause(sqlRows.query)
              /\ sqlCount.query[2] = Lit(SelectCount)
              /\ sqlRows.query[2] = Lit(SelectRows)
              /\ sqlCount.query[1] = sqlRows.query[1]
              /\ Len(sqlCount.params) = Len(sqlRows.params)
              /\ NumTags(sqlCount) = NumTags(sqlRows)
              /\ \A i \in 1..Len(sqlCount.params) :
                    \/ sqlCount.params[i] = sqlRows.params[i]
                    \/ /\ i <= NumTags(sqlCount)
                       /\ Occurrences(sqlCount.params, sqlCount.params[i]) =
                          Occurrences(sqlRows.params, sqlCount.params[i])
              /\ sqlCount.order = sqlRows.order =>
                    sqlCount.params = sqlRows.params

(***************************************************************************)
(* Properties of QueryEvents and CountEvents (Spec)                        *)
(***************************************************************************)
TotalTagValues(f) == Len(Flatten([i \in 1..Cardinality(DOMAIN f.Tags) |->
                        f.Tags[(CHOOSE o \in Orders(DOMAIN f.Tags) : TRUE)[i]]]))

\* the empty-result cases: a dimension over its limit, present but empty,
\* without a single entry of 32 hex-encoded bytes, a tag without values,
\* or more tag values than QueryTagsLimit
EmptyCase(f, b) ==
    /\ ~f.null
    /\ \/ f.IDs.present /\ Len(f.IDs.v) > b.QueryIDsLimit
       \/ f.Authors.present /\ Len(f.Authors.v) > b.QueryAuthorsLimit
       \/ f.Kinds.present /\ Len(f.Kinds.v) > b.QueryKindsLimit
       \/ f.IDs.present /\ \A i \in 1..Len(f.IDs.v) : ~ValidEntry(f.IDs.v[i])
       \/ f.Authors.present
          /\ \A i \in 1..Len(f.Authors.v) : ~ValidEntry(f.Authors.v[i])
       \/ f.Kinds.present /\ Len(f.Kinds.v) = 0
       \/ \E k \in DOMAIN f.Tags : Len(f.Tags[k]) = 0
       \/ TotalTagValues(f) > b.QueryTagsLimit

\* C1: on an empty-result filter QueryEvents yields an empty sequence,
\* CountEvents returns 0, and neither call invokes the storage handle.
C1_EmptyWithoutStorage ==
    EmptyCase(filter, cfg) =>
        /\ dbLog = <<>>
        /\ qpc = "returned" => qerr = "nil" /\ chOut /\ delivered = <<>>
        /\ kpc = "returned" => kerr = "nil" /\ kcount = 0

MatchCount(r) ==
    Cardinality({e \in store : Matches(e, r.query, r.params)})

StreamComplete == qout = "ok" /\ cpc = "eof" /\ failedAt = 0

\* C2: with M the number of stored events satisfying the compiled
\* conditions and L the resolved limit, CountEvents returns L when M > L,
\* and returns the number of events QueryEvents yields to a consumer that
\* reads to the end when M <= L (storage answering both calls).
C2_CountAgreesWithFetch ==
    (kpc = "returned" /\ kout = "ok" /\ IsQuery(sqlCount)) =>
        /\ MatchCount(sqlCount) > ExpectedLimit => kcount = ExpectedLimit
        /\ (MatchCount(sqlCount) <= ExpectedLimit /\ StreamComplete) =>
               kcount = Len(delivered)

\* C4: the producer has scanned at most one row more than the consumer has
\* received, and it scans a row only after every earlier row was received.
C4_OneAhead ==
    /\ scanned - Len(delivered) \in {0, 1}
    /\ ppc = "scan" => Len(delivered) = scanned /\ rows.pos = scanned + 1

C4_Witness ==
    /\ ppc = "send" /\ cpc = "recv"
    /\ scanned = 2 /\ Len(delivered) = 1

\* C5: when the scan of row k fails, the consumer gets exactly rows
\* 1..k-1 in storage order, the goroutine goes on to close the channel
\* (once) without a fault, and QueryEvents has returned a nil error.
C5_TruncatedSilently ==
    failedAt > 0 =>
        /\ delivered = SubSeq(rows.data, 1, failedAt - 1)
        /\ qpc = "returned" /\ qerr = "nil" /\ chOut
        /\ fault = "none"
        /\ ppc \in {"closech", "closerows", "done"}
        /\ chCloses = IF ppc = "closech" THEN 0 ELSE 1
        /\ cpc = "eof" => chCloses = 1

C5_Witness ==
    /\ failedAt = 2 /\ Len(rows.data) = 2
    /\ cpc = "eof" /\ ppc = "done"
    /\ delivered = <<rows.data[1]>>

Abandoned ==
    /\ cpc = "stopped" /\ ppc = "send"
    /\ chCloses = 0 /\ ~rows.closed

\* C6: once the consumer has stopped while the producer holds a row to
\* hand off, every later step, a cancellation of ctx included, leaves the
\* producer blocked in the send, the channel open and the cursor unreleased.
C6_BlockedForever == [][Abandoned => Abandoned']_vars

C6_Witness == Abandoned /\ ctxDone /\ Len(delivered) = 1

\* C7: QueryEvents returns an error exactly for a null filter or a storage
\* failure other than no rows; with an error it returns no channel, starts
\* no producer and delivers nothing; a null filter never reaches storage;
\* empty-result and truncation cases return a nil error.
C7_ErrorPolicy ==
    qpc = "returned" =>
        /\ qerr # "nil" <=> (filter.null \/ qout = "error")
        /\ qerr # "nil" => ~chOut /\ ppc = "none" /\ delivered = <<>>
        /\ filter.null => dbLog = <<>>
        /\ EmptyCase(filter, cfg) => qerr = "nil"
        /\ failedAt > 0 => qerr = "nil"

\* C8: after QueryEvents returned a nil error (storage having answered or
\* reported no rows), the producer never faults, the channel is closed at
\* most once and only after the last delivery, and a finished producer has
\* closed the channel once and released the cursor.
C8_EndsCleanly ==
    (qpc = "returned" /\ qerr = "nil") =>
        /\ fault = "none" /\ ppc # "crashed"
        /\ chCloses <= 1
        /\ chCloses = 1 => ppc \in {"closerows", "done"}
        /\ ppc = "done" => chCloses = 1 /\ rows.closed

====
